---- MODULE Spec2Model ----
(***************************************************************************)
(* Model of the Portuguese phrase reorder game: the evaluation engine      *)
(* (src/src/utils/evaluate.ts), the Fisher-Yates shuffle                   *)
(* (src/src/utils/shuffle.ts) and the session state machine of             *)
(* src/src/App.tsx (createSession, handleReorder, handleSolve, handleSkip, *)
(* handleNext, handleRestart).                                             *)
(*                                                                         *)
(* Conventions.  Problem indices and token indices are 0-based as in the   *)
(* source; TLA+ sequences are 1-based, so flattened position p of the      *)
(* source is element p+1 of the sequence.  `null` is modelled by Null.     *)
(* A problem is represented by its tokens.length (the token strings are    *)
(* never inspected by the modelled code).  The string produced by          *)
(* createFragmentId is represented by the tuple <<"fragment", i1, .., ik>>.*)
(***************************************************************************)
EXTENDS Integers, Sequences, FiniteSets, TLC

\* ---------------------------------------------------------------- bounds
\* Largest number of problems in a problem set.
MaxProblems == 3
\* Largest tokens.length of one problem.
MaxTokens == 3
\* Largest total number of tokens of a problem set.
MaxTotalTokens == 4
\* Largest solutionLength handed to the evaluation engine on its own.
MaxEvalTokens == 3
\* Largest number of fragments of an evaluation input.
MaxEvalFragments == 3
\* Largest number of items handed to shuffle on its own.
MaxShuffleLen == 4
\* Number of distinct item values handed to shuffle on its own.
MaxShuffleValues == 2
\* Number of distinct outputs of the random generator: k / RandomSteps for
\* k in 0 .. RandomSteps - 1 (the source has k / 2^32).
RandomSteps == 4
\* Persistence: largest number of problems of a problems.json.
MaxStoredProblems == 2
\* Persistence: largest total number of tokens of a problems.json.
MaxStoredTokens == 2
\* Persistence: number of different wordings of a problems.json with the
\* same token counts.
MaxWordings == 2
\* Persistence: largest number of times the page is opened.
MaxLoads == 2

\* Loading: largest number of fetches the effect starts.
MaxRequests == 2
\* Loading: largest number of entries of a payload, and of tokens of an entry.
MaxEntries == 2
MaxEntryTokens == 2

\* Service worker: number of different bodies the server sends for
\* problems.json.
MaxVersions == 2

\* `null` of the source (session.current when the problem set is empty).
Null == -1

VARIABLES
  problems,    \* App: state.problems, as the sequence of tokens.length
  current,     \* SessionState.current
  queue,       \* SessionState.queue
  progress,    \* SessionState.progress, a function on 0..n-1
  thrown,      \* the error an updater threw ("none" while the app runs)
  evalInput,   \* evaluation engine alone: the fragments argument
  evalLength,  \* evaluation engine alone: the solutionLength argument
  evalResult,  \* evaluation engine alone: the returned value (or Pending)
  evalOther,   \* the same call made to the per-fragment evaluation engine
  shuffleItems,  \* shuffle alone: the items argument
  shuffleRandom, \* shuffle alone: the outputs random() will give, in order
  shuffleResult, \* shuffle alone: the returned array (or NotShuffled)
  status,        \* App: state.status ("loading" or "success")
  problemHash,   \* App: state.hash (NoHash while loading)
  hasSession,    \* usePersistentState: its state is a SessionState, not null
  writePending,  \* usePersistentState: the write effect of a commit is due
  storage,       \* window.localStorage, by key (NoStorage when there is none)
  storageWorks,  \* getItem and setItem do not throw while this page is open
  loads,         \* how many times the page has been opened and has fetched
  requests,      \* App: the fetches its effect has started, oldest first
  swCache,       \* service worker: the entry of problems.json in DATA_CACHE
  swPending,     \* service worker: the cache.put calls not yet finished
  swResponse,    \* service worker: its answer to the latest request
  diligent       \* the user has settled on putting the tokens in order

vars == <<problems, current, queue, progress, thrown,
          evalInput, evalLength, evalResult, evalOther,
          shuffleItems, shuffleRandom, shuffleResult,
          status, problemHash, hasSession, writePending, storage, storageWorks, loads,
          requests, swCache, swPending, swResponse, diligent>>
sessionVars == <<problems, current, queue, progress, thrown>>
evalVars == <<evalInput, evalLength, evalResult, evalOther>>
shuffleVars == <<shuffleItems, shuffleRandom, shuffleResult>>
\* What the session handlers and the evaluation engine never touch.
persistVars == <<status, problemHash, hasSession, writePending, storage, storageWorks, loads>>
fetchVars == <<requests>>
workerVars == <<swCache, swPending, swResponse>>
userVars == <<diligent>>
sideVars == <<fetchVars, workerVars, userVars>>
extraVars == <<shuffleVars, persistVars, sideVars>>

\* ------------------------------------------------------- sequence helpers
RECURSIVE SumSeq(_)
SumSeq(s) == IF s = <<>> THEN 0 ELSE Head(s) + SumSeq(Tail(s))

Range(s) == {s[i] : i \in DOMAIN s}

\* [a, a+1, .., b] as a sequence (empty when b < a).
Run(a, b) == [i \in 1..(b - a + 1) |-> a + i - 1]

\* Array.prototype.filter(index => index !== x)
RECURSIVE FilterOut(_, _)
FilterOut(s, x) ==
  IF s = <<>> THEN <<>>
  ELSE IF Head(s) = x THEN FilterOut(Tail(s), x)
       ELSE <<Head(s)>> \o FilterOut(Tail(s), x)

\* Insertion of x into an ascending sequence, after its equals.
RECURSIVE InsertSorted(_, _)
InsertSorted(s, x) ==
  IF s = <<>> THEN <<x>>
  ELSE IF x < Head(s) THEN <<x>> \o s
       ELSE <<Head(s)>> \o InsertSorted(Tail(s), x)

\* [...indices].sort((a, b) => a - b)
RECURSIVE SortAscending(_)
SortAscending(s) ==
  IF s = <<>> THEN <<>> ELSE InsertSorted(SortAscending(Tail(s)), Head(s))

\* ------------------------------------------------------------- fragments
\* createFragmentId: "fragment-" followed by the sorted indices joined by "-".
\* It throws on an empty index list; the model's callers never pass one.
createFragmentId(indices) == <<"fragment">> \o SortAscending(indices)

Fragment(indices, locked) ==
  [id |-> createFragmentId(indices), indices |-> indices, locked |-> locked]

\* fragments.forEach(fragment => fragment.indices.forEach(push)): the
\* flattened candidate permutation.
RECURSIVE orderedIndices(_)
orderedIndices(fragments) ==
  IF fragments = <<>> THEN <<>>
  ELSE Head(fragments).indices \o orderedIndices(Tail(fragments))

\* seen.has(originalIndex) for some index during the flattening.
HasDuplicate(s) == \E i, j \in DOMAIN s : i < j /\ s[i] = s[j]

\* tokensCorrect that compares an index with the 1-based position.
tokensCorrectOneBased(ordered) == [k \in DOMAIN ordered |-> ordered[k] = k]

\* tokensCorrect[positionIndex] (0-based position p is element p + 1).
tokensCorrect(ordered) == [k \in DOMAIN ordered |-> ordered[k] = k - 1]

\* buildGroups that joins a token to the previous group whenever both have
\* the same locked flag, whatever their indices.
RECURSIVE buildGroupsSameFlag(_, _, _, _)
buildGroupsSameFlag(ordered, correct, k, groups) ==
  IF k > Len(ordered) THEN groups
  ELSE
    LET isLocked == correct[k]
        originalIndex == ordered[k]
        g == Len(groups)
    IN IF g > 0 /\ groups[g].locked = isLocked
       THEN buildGroupsSameFlag(ordered, correct, k + 1,
              [groups EXCEPT ![g].indices = Append(@, originalIndex)])
       ELSE buildGroupsSameFlag(ordered, correct, k + 1,
              Append(groups, [indices |-> <<originalIndex>>, locked |-> isLocked]))

\* buildGroups that opens a new group for every token.
RECURSIVE buildGroupsNoMerge(_, _, _, _)
buildGroupsNoMerge(ordered, correct, k, groups) ==
  IF k > Len(ordered) THEN groups
  ELSE buildGroupsNoMerge(ordered, correct, k + 1,
         Append(groups, [indices |-> <<ordered[k]>>, locked |-> correct[k]]))

\* buildGroups that joins a token to the previous group only when both are
\* unlocked.
RECURSIVE buildGroupsUnlockedOnly(_, _, _, _)
buildGroupsUnlockedOnly(ordered, correct, k, groups) ==
  IF k > Len(ordered) THEN groups
  ELSE
    LET isLocked == correct[k]
        originalIndex == ordered[k]
        g == Len(groups)
    IN IF /\ g > 0
          /\ ~groups[g].locked /\ ~isLocked
          /\ groups[g].indices[Len(groups[g].indices)] + 1 = originalIndex
       THEN buildGroupsUnlockedOnly(ordered, correct, k + 1,
              [groups EXCEPT ![g].indices = Append(@, originalIndex)])
       ELSE buildGroupsUnlockedOnly(ordered, correct, k + 1,
              Append(groups, [indices |-> <<originalIndex>>, locked |-> isLocked]))

\* buildGroups that joins a token to the previous group only when both are
\* locked.
RECURSIVE buildGroupsLockedOnly(_, _, _, _)
buildGroupsLockedOnly(ordered, correct, k, groups) ==
  IF k > Len(ordered) THEN groups
  ELSE
    LET isLocked == correct[k]
        originalIndex == ordered[k]
        g == Len(groups)
    IN IF /\ g > 0
          /\ groups[g].locked /\ isLocked
          /\ groups[g].indices[Len(groups[g].indices)] + 1 = originalIndex
       THEN buildGroupsLockedOnly(ordered, correct, k + 1,
              [groups EXCEPT ![g].indices = Append(@, originalIndex)])
       ELSE buildGroupsLockedOnly(ordered, correct, k + 1,
              Append(groups, [indices |-> <<originalIndex>>, locked |-> isLocked]))

\* The forEach over orderedIndices that builds `groups`: token k joins the
\* previous group when that group has the same locked flag and ends in the
\* index just before this one, otherwise it opens a new group.
RECURSIVE buildGroups(_, _, _, _)
buildGroups(ordered, correct, k, groups) ==
  IF k > Len(ordered) THEN groups
  ELSE
    LET isLocked == correct[k]
        originalIndex == ordered[k]
        g == Len(groups)
    IN IF /\ g > 0
          /\ groups[g].locked = isLocked
          /\ groups[g].indices[Len(groups[g].indices)] + 1 = originalIndex
       THEN buildGroups(ordered, correct, k + 1,
              [groups EXCEPT ![g].indices = Append(@, originalIndex)])
       ELSE buildGroups(ordered, correct, k + 1,
              Append(groups, [indices |-> <<originalIndex>>, locked |-> isLocked]))

\* The value a call returns, or the error it throws (threw # "none").
Returned(fragments, lockedCount, isSolved) ==
  [threw |-> "none", fragments |-> fragments,
   lockedCount |-> lockedCount, isSolved |-> isSolved]

Threw(what) ==
  [threw |-> what, fragments |-> <<>>, lockedCount |-> 0, isSolved |-> FALSE]

\* evaluateFragments that names each returned fragment after its first
\* index only.
evaluateFragmentsIdOfFirst(fragments, solutionLength) ==
  LET totalTokens == SumSeq([i \in DOMAIN fragments |-> Len(fragments[i].indices)])
      ordered == orderedIndices(fragments)
      correct == tokensCorrect(ordered)
      lockedCount == Cardinality({k \in DOMAIN ordered : correct[k]})
      groups == buildGroups(ordered, correct, 1, <<>>)
      fragmentsResult ==
        [i \in DOMAIN groups |->
           [id |-> createFragmentId(<<groups[i].indices[1]>>),
            indices |-> groups[i].indices, locked |-> groups[i].locked]]
  IN IF totalTokens # solutionLength THEN Threw("length")
     ELSE IF HasDuplicate(ordered) THEN Threw("duplicate")
     ELSE Returned(fragmentsResult, lockedCount, lockedCount = solutionLength)

\* evaluateFragments without the check for duplicate indices.
evaluateFragmentsNoDuplicateCheck(fragments, solutionLength) ==
  LET totalTokens == SumSeq([i \in DOMAIN fragments |-> Len(fragments[i].indices)])
      ordered == orderedIndices(fragments)
      correct == tokensCorrect(ordered)
      lockedCount == Cardinality({k \in DOMAIN ordered : correct[k]})
      groups == buildGroups(ordered, correct, 1, <<>>)
      fragmentsResult ==
        [i \in DOMAIN groups |-> Fragment(groups[i].indices, groups[i].locked)]
  IN IF totalTokens # solutionLength THEN Threw("length")
     ELSE Returned(fragmentsResult, lockedCount, lockedCount = solutionLength)

\* evaluateFragments that returns the locked fragments first, followed by
\* the unlocked ones.
evaluateFragmentsLockedFirst(fragments, solutionLength) ==
  LET totalTokens == SumSeq([i \in DOMAIN fragments |-> Len(fragments[i].indices)])
      ordered == orderedIndices(fragments)
      correct == tokensCorrect(ordered)
      lockedCount == Cardinality({k \in DOMAIN ordered : correct[k]})
      groups == buildGroups(ordered, correct, 1, <<>>)
      fragmentsResult ==
        [i \in DOMAIN groups |-> Fragment(groups[i].indices, groups[i].locked)]
      IsLocked(f) == f.locked
      IsUnlocked(f) == ~f.locked
  IN IF totalTokens # solutionLength THEN Threw("length")
     ELSE IF HasDuplicate(ordered) THEN Threw("duplicate")
     ELSE Returned(SelectSeq(fragmentsResult, IsLocked)
                     \o SelectSeq(fragmentsResult, IsUnlocked),
                   lockedCount, lockedCount = solutionLength)

\* evaluateFragments that counts the locked fragments of its result instead
\* of the correctly placed tokens.
evaluateFragmentsCountsFragments(fragments, solutionLength) ==
  LET totalTokens == SumSeq([i \in DOMAIN fragments |-> Len(fragments[i].indices)])
      ordered == orderedIndices(fragments)
      correct == tokensCorrect(ordered)
      groups == buildGroups(ordered, correct, 1, <<>>)
      lockedCount == Cardinality({i \in DOMAIN groups : groups[i].locked})
      fragmentsResult ==
        [i \in DOMAIN groups |-> Fragment(groups[i].indices, groups[i].locked)]
  IN IF totalTokens # solutionLength THEN Threw("length")
     ELSE IF HasDuplicate(ordered) THEN Threw("duplicate")
     ELSE Returned(fragmentsResult, lockedCount, lockedCount = solutionLength)

\* evaluateFragments of src/src/utils/evaluate.ts (the module App.tsx imports).
evaluateFragments(fragments, solutionLength) ==
  LET totalTokens == SumSeq([i \in DOMAIN fragments |-> Len(fragments[i].indices)])
      ordered == orderedIndices(fragments)
      correct == tokensCorrect(ordered)
      lockedCount == Cardinality({k \in DOMAIN ordered : correct[k]})
      groups == buildGroups(ordered, correct, 1, <<>>)
      fragmentsResult ==
        [i \in DOMAIN groups |-> Fragment(groups[i].indices, groups[i].locked)]
  IN IF totalTokens # solutionLength THEN Threw("length")
     ELSE IF HasDuplicate(ordered) THEN Threw("duplicate")
     ELSE Returned(fragmentsResult, lockedCount, lockedCount = solutionLength)

\* -------------------------------------- the per-fragment evaluation engine
\* normalizeIndices
normalizeIndices(indices) == SortAscending(indices)

\* fragmentPositions[fragmentIndex]: the positions (1-based here) its
\* tokens take in the flattened list.
fragmentPositions(fragments, index) ==
  LET before == SumSeq([i \in 1..(index - 1) |-> Len(fragments[i].indices)])
  IN (before + 1)..(before + Len(fragments[index].indices))

\* fragmentCorrect[index]: the fragment has tokens and each is in place.
fragmentCorrect(fragments, correct, index) ==
  /\ fragmentPositions(fragments, index) # {}
  /\ \A position \in fragmentPositions(fragments, index) : correct[position]

\* The forEach that builds `result` without joining locked neighbours.
RECURSIVE buildResultNoMerge(_, _, _, _)
buildResultNoMerge(fragments, correct, index, result) ==
  IF index > Len(fragments) THEN result
  ELSE buildResultNoMerge(fragments, correct, index + 1,
         Append(result, Fragment(normalizeIndices(fragments[index].indices),
                                 fragmentCorrect(fragments, correct, index))))

\* The forEach that builds `result`: a correct fragment is locked and joins
\* the previous result when that one is locked and ends in the index just
\* before its first; any other fragment is passed on unlocked.
RECURSIVE buildResult(_, _, _, _)
buildResult(fragments, correct, index, result) ==
  IF index > Len(fragments) THEN result
  ELSE
    LET sortedIndices == normalizeIndices(fragments[index].indices)
        r == Len(result)
    IN IF fragmentCorrect(fragments, correct, index)
       THEN IF /\ r > 0
               /\ result[r].locked
               /\ result[r].indices[Len(result[r].indices)] + 1 = sortedIndices[1]
            THEN buildResult(fragments, correct, index + 1,
                   [result EXCEPT ![r] = Fragment(@.indices \o sortedIndices, TRUE)])
            ELSE buildResult(fragments, correct, index + 1,
                   Append(result, Fragment(sortedIndices, TRUE)))
       ELSE buildResult(fragments, correct, index + 1,
              Append(result, Fragment(sortedIndices, FALSE)))

\* The per-fragment engine that counts the locked fragments, not their
\* tokens.
evaluateFragmentsPerFragmentCountsFragments(fragments, solutionLength) ==
  LET totalTokens == SumSeq([i \in DOMAIN fragments |-> Len(fragments[i].indices)])
      ordered == orderedIndices(fragments)
      correct == tokensCorrect(ordered)
      lockedCount ==
        Cardinality({i \in DOMAIN fragments : fragmentCorrect(fragments, correct, i)})
  IN IF totalTokens # solutionLength THEN Threw("length")
     ELSE IF HasDuplicate(ordered) THEN Threw("duplicate")
     ELSE IF \E i \in DOMAIN fragments : fragments[i].indices = <<>> THEN Threw("empty")
     ELSE Returned(buildResult(fragments, correct, 1, <<>>),
                   lockedCount, lockedCount = solutionLength)

\* evaluateFragments of the per-fragment engine: a fragment is locked when
\* every token of it is in place; createFragmentId throws on a fragment
\* without indices.
evaluateFragmentsPerFragment(fragments, solutionLength) ==
  LET totalTokens == SumSeq([i \in DOMAIN fragments |-> Len(fragments[i].indices)])
      ordered == orderedIndices(fragments)
      correct == tokensCorrect(ordered)
      lockedCount ==
        SumSeq([i \in DOMAIN fragments |->
                  IF fragmentCorrect(fragments, correct, i)
                  THEN Len(fragments[i].indices) ELSE 0])
  IN IF totalTokens # solutionLength THEN Threw("length")
     ELSE IF HasDuplicate(ordered) THEN Threw("duplicate")
     ELSE IF \E i \in DOMAIN fragments : fragments[i].indices = <<>> THEN Threw("empty")
     ELSE Returned(buildResult(fragments, correct, 1, <<>>),
                   lockedCount, lockedCount = solutionLength)

\* --------------------------------------------------------------- shuffle
\* The generator outputs of one shuffle of `len` items, as the swap index
\* Math.floor(random() * (index + 1)) drawn for each index len-1 .. 1.
SwapChoices(len) ==
  {f \in [1..(len - 1) -> 0..(len - 1)] : \A i \in 1..(len - 1) : f[i] <= i}

\* The swap that forgets to write the second element.
SwapAtOverwrites(s, a, b) == [s EXCEPT ![a] = s[b]]

SwapAt(s, a, b) == [s EXCEPT ![a] = s[b], ![b] = s[a]]

\* The Fisher-Yates loop: for (index = length - 1; index > 0; index -= 1).
RECURSIVE shuffleFrom(_, _, _)
shuffleFrom(result, index, swaps) ==
  IF index <= 0 THEN result
  ELSE shuffleFrom(SwapAt(result, index + 1, swaps[index] + 1), index - 1, swaps)

shuffle(items, swaps) ==
  IF Len(items) < 2 THEN items ELSE shuffleFrom(items, Len(items) - 1, swaps)

\* ------------------------------------------------------- session building
\* createInitialFragments that numbers the tokens from one.
createInitialFragmentsOneBased(tokenCount, swaps) ==
  LET baseFragments == [i \in 1..tokenCount |-> Fragment(<<i>>, FALSE)]
      shuffled == shuffle(baseFragments, swaps)
  IN [i \in DOMAIN shuffled |->
        [id |-> shuffled[i].id, indices |-> shuffled[i].indices, locked |-> FALSE]]

\* createInitialFragments(problem, seed); `swaps` are the swap indices the
\* seeded generator yields.
createInitialFragments(tokenCount, swaps) ==
  LET baseFragments == [i \in 1..tokenCount |-> Fragment(<<i - 1>>, FALSE)]
      shuffled == shuffle(baseFragments, swaps)
  IN [i \in DOMAIN shuffled |->
        [id |-> shuffled[i].id, indices |-> shuffled[i].indices, locked |-> FALSE]]

\* createSession; `seeds` gives, per problem index, the generator outputs of
\* the shuffle seeded with `${seed}-${index}`.
createSession(probs, seeds) ==
  IF Len(probs) = 0
  THEN [current |-> Null, queue |-> <<>>, progress |-> <<>>]
  ELSE [current |-> 0,
        queue |-> Run(1, Len(probs) - 1),
        progress |-> [i \in 0..(Len(probs) - 1) |->
                        [fragments |-> createInitialFragments(probs[i + 1], seeds[i]),
                         solved |-> FALSE]]]

\* The outcomes of createSessionSeed() (Date.now and Math.random), as the
\* generator outputs they lead to for every problem.
RECURSIVE SeedLists(_)
SeedLists(probs) ==
  IF probs = <<>> THEN {<<>>}
  ELSE {<<h>> \o t : h \in SwapChoices(Head(probs)), t \in SeedLists(Tail(probs))}

SessionSeeds(probs) ==
  {[i \in 0..(Len(probs) - 1) |-> l[i + 1]] : l \in SeedLists(probs)}

\* The problem sets the model loads.
ProblemSets ==
  {p \in UNION {[1..n -> 1..MaxTokens] : n \in 0..MaxProblems} :
     SumSeq(p) <= MaxTotalTokens}

Pending == [threw |-> "pending", fragments |-> <<>>, lockedCount |-> 0, isSolved |-> FALSE]

EvalIdle ==
  evalInput = <<>> /\ evalLength = 0 /\ evalResult = Pending /\ evalOther = Pending

NotShuffled == [done |-> FALSE, items |-> <<>>]

ShuffleIdle == shuffleItems = <<>> /\ shuffleRandom = <<>> /\ shuffleResult = NotShuffled

\* problemHash while no problem set is loaded (null).
NoHash == <<"none">>

\* `storage` when window.localStorage is not available (null).
NoStorage == <<>>

\* The page has loaded its problems and there is no localStorage: the
\* session lives in memory only.
PersistIdle ==
  /\ status = "success"
  /\ problemHash = NoHash
  /\ hasSession = TRUE
  /\ writePending = FALSE
  /\ storage = NoStorage
  /\ storageWorks = FALSE
  /\ loads = 0

\* No fetch is modelled: the problems are there from the start.
FetchIdle == requests = <<>>

\* The response the service worker has when it has answered nothing, and
\* the cache entry when there is none.
NoResponse == [from |-> "none", version |-> 0, ok |-> FALSE]

\* No service worker is registered.
WorkerIdle == swCache = NoResponse /\ swPending = {} /\ swResponse = NoResponse

UserIdle == diligent = FALSE

SideIdle == FetchIdle /\ WorkerIdle /\ UserIdle

ExtraIdle == ShuffleIdle /\ PersistIdle /\ SideIdle

Init ==
  /\ problems \in ProblemSets
  /\ \E seeds \in SessionSeeds(problems) :
       LET s == createSession(problems, seeds)
       IN current = s.current /\ queue = s.queue /\ progress = s.progress
  /\ thrown = "none"
  /\ EvalIdle
  /\ ExtraIdle

\* ------------------------------------------------------------ UI reorder
\* fragments.findIndex(fragment => fragment.id === id), 1-based; 0 for -1.
findIndex(fragments, id) ==
  IF \E i \in DOMAIN fragments : fragments[i].id = id
  THEN CHOOSE i \in DOMAIN fragments :
         /\ fragments[i].id = id
         /\ \A j \in 1..(i - 1) : fragments[j].id # id
  ELSE 0

\* arrayMove that writes the moved element over the one at `to`.
arrayMoveOverwrites(array, from, to) ==
  [array EXCEPT ![to] = array[from]]

\* arrayMove of @dnd-kit/sortable: take the element out at `from`, put it
\* back in at `to` (1-based positions of the resulting array).
arrayMove(array, from, to) ==
  LET without == [i \in 1..(Len(array) - 1) |->
                    IF i < from THEN array[i] ELSE array[i + 1]]
  IN [i \in 1..Len(array) |->
        IF i < to THEN without[i]
        ELSE IF i = to THEN array[from]
        ELSE without[i - 1]]

\* TokenList.handleDragEnd: the list handed to onReorder when the fragment
\* activeId is dropped on the indicator (targetId, position), or NoDrop when
\* the handler returns without calling onReorder.
NoDrop == <<"no drop">>

handleDragEnd(fragments, activeId, targetId, position) ==
  LET oldIndex == findIndex(fragments, activeId)
      targetIndex == findIndex(fragments, targetId)
      afterIndex == IF position = "after" THEN targetIndex + 1 ELSE targetIndex
      newIndex == IF oldIndex < afterIndex THEN afterIndex - 1 ELSE afterIndex
  IN IF oldIndex = 0 \/ targetIndex = 0 THEN NoDrop
     ELSE IF newIndex = oldIndex THEN NoDrop
     ELSE arrayMove(fragments, oldIndex, newIndex)

\* The lists a drag gesture can hand to onReorder: Token disables dragging
\* of a locked fragment, and the indicator names another fragment.
DragResults(fragments) ==
  {handleDragEnd(fragments, fragments[a].id, fragments[t].id, pos) :
     a \in {i \in DOMAIN fragments : ~fragments[i].locked},
     t \in DOMAIN fragments,
     pos \in {"before", "after"}} \ {NoDrop}

\* Lists no drag gesture produces, for calls of handleReorder the UI would
\* not make: an empty list, one index repeated, indices shifted out of
\* range, and a fragment of non-neighbouring indices.
RawOrders(n) ==
  { <<>>,
    [i \in 1..n |-> Fragment(<<0>>, FALSE)],
    [i \in 1..n |-> Fragment(<<i>>, FALSE)],
    <<Fragment(<<0, n - 1>>, FALSE)>> \o [i \in 1..(n - 2) |-> Fragment(<<i>>, FALSE)] }

tokensLength(index) == problems[index + 1]

\* ------------------------------------------------------------- handlers
Running == thrown = "none"

\* handleReorder that clears the solved flag of the reordered problem.
ReorderResetsSolved(nextFragments) ==
  /\ Running
  /\ IF current = Null
     THEN UNCHANGED <<current, queue, progress>>
     ELSE /\ progress' = [progress EXCEPT ![current] =
                            [fragments |-> nextFragments, solved |-> FALSE]]
          /\ UNCHANGED <<current, queue>>
  /\ UNCHANGED <<problems, thrown>>

\* handleReorder(nextFragments)
Reorder(nextFragments) ==
  /\ Running
  /\ IF current = Null
     THEN UNCHANGED <<current, queue, progress>>
     ELSE /\ progress' = [progress EXCEPT ![current] =
                            [fragments |-> nextFragments, solved |-> @.solved]]
          /\ UNCHANGED <<current, queue>>
  /\ UNCHANGED <<problems, thrown>>

\* A drag gesture on the displayed list of the current problem.
handleReorder ==
  /\ current # Null
  /\ \E next \in DragResults(progress[current].fragments) : Reorder(next)
  /\ UNCHANGED evalVars

\* A call of handleReorder that no gesture produces (also with no current
\* problem).
handleReorderRaw ==
  /\ \E next \in RawOrders(IF current = Null THEN 1 ELSE tokensLength(current)) :
       Reorder(next)
  /\ UNCHANGED evalVars

\* handleSolve that overwrites the solved flag with isSolved.
handleSolveForgetsSolved ==
  /\ Running
  /\ IF current = Null
     THEN UNCHANGED <<current, queue, progress, thrown>>
     ELSE LET evaluation == evaluateFragments(progress[current].fragments,
                                              tokensLength(current))
          IN IF evaluation.threw # "none"
             THEN /\ thrown' = evaluation.threw
                  /\ UNCHANGED <<current, queue, progress>>
             ELSE /\ progress' = [progress EXCEPT ![current] =
                         [fragments |-> evaluation.fragments,
                          solved |-> evaluation.isSolved]]
                  /\ queue' = IF evaluation.isSolved
                              THEN FilterOut(queue, current) ELSE queue
                  /\ UNCHANGED <<current, thrown>>
  /\ UNCHANGED <<problems, evalVars>>

\* handleSolve that drops the head of queue once the problem is solved.
handleSolveDropsHead ==
  /\ Running
  /\ IF current = Null
     THEN UNCHANGED <<current, queue, progress, thrown>>
     ELSE LET evaluation == evaluateFragments(progress[current].fragments,
                                              tokensLength(current))
          IN IF evaluation.threw # "none"
             THEN /\ thrown' = evaluation.threw
                  /\ UNCHANGED <<current, queue, progress>>
             ELSE /\ progress' = [progress EXCEPT ![current] =
                         [fragments |-> evaluation.fragments,
                          solved |-> @.solved \/ evaluation.isSolved]]
                  /\ queue' = IF evaluation.isSolved /\ Len(queue) > 0
                              THEN Tail(queue) ELSE queue
                  /\ UNCHANGED <<current, thrown>>
  /\ UNCHANGED <<problems, evalVars>>

\* handleSolve (state.status is 'success' from Init on)
handleSolve ==
  /\ Running
  /\ IF current = Null
     THEN UNCHANGED <<current, queue, progress, thrown>>
     ELSE LET evaluation == evaluateFragments(progress[current].fragments,
                                              tokensLength(current))
          IN IF evaluation.threw # "none"
             THEN /\ thrown' = evaluation.threw
                  /\ UNCHANGED <<current, queue, progress>>
             ELSE /\ progress' = [progress EXCEPT ![current] =
                         [fragments |-> evaluation.fragments,
                          solved |-> @.solved \/ evaluation.isSolved]]
                  /\ queue' = IF evaluation.isSolved
                              THEN FilterOut(queue, current) ELSE queue
                  /\ UNCHANGED <<current, thrown>>
  /\ UNCHANGED <<problems, evalVars>>

\* handleSkip that leaves the new current problem at the head of queue.
handleSkipKeepsHead ==
  /\ Running
  /\ IF current = Null
     THEN UNCHANGED <<current, queue>>
     ELSE IF progress[current].solved \/ Len(queue) = 0
     THEN UNCHANGED <<current, queue>>
     ELSE /\ current' = Head(queue)
          /\ queue' = Append(queue, current)
  /\ UNCHANGED <<problems, progress, thrown, evalVars>>

\* handleSkip that puts the skipped problem at the front of queue.
handleSkipToFront ==
  /\ Running
  /\ IF current = Null
     THEN UNCHANGED <<current, queue>>
     ELSE IF progress[current].solved \/ Len(queue) = 0
     THEN UNCHANGED <<current, queue>>
     ELSE /\ current' = Head(queue)
          /\ queue' = <<current>> \o Tail(queue)
  /\ UNCHANGED <<problems, progress, thrown, evalVars>>

\* handleSkip without the check of the solved flag.
handleSkipIgnoresSolved ==
  /\ Running
  /\ IF current = Null
     THEN UNCHANGED <<current, queue>>
     ELSE IF Len(queue) = 0
     THEN UNCHANGED <<current, queue>>
     ELSE /\ current' = Head(queue)
          /\ queue' = Append(Tail(queue), current)
  /\ UNCHANGED <<problems, progress, thrown, evalVars>>

\* handleSkip
handleSkip ==
  /\ Running
  /\ IF current = Null
     THEN UNCHANGED <<current, queue>>
     ELSE IF progress[current].solved \/ Len(queue) = 0
     THEN UNCHANGED <<current, queue>>
     ELSE /\ current' = Head(queue)
          /\ queue' = Append(Tail(queue), current)
  /\ UNCHANGED <<problems, progress, thrown, evalVars>>

\* handleNext that puts the old current problem back at the end of queue.
handleNextRequeues ==
  /\ Running
  /\ IF Len(queue) = 0
     THEN UNCHANGED <<current, queue>>
     ELSE /\ current' = Head(queue)
          /\ queue' = Append(Tail(queue), current)
  /\ UNCHANGED <<problems, progress, thrown, evalVars>>

\* handleNext that leaves the new current problem in queue.
handleNextKeepsQueue ==
  /\ Running
  /\ IF Len(queue) = 0
     THEN UNCHANGED <<current, queue>>
     ELSE /\ current' = Head(queue)
          /\ queue' = queue
  /\ UNCHANGED <<problems, progress, thrown, evalVars>>

\* handleNext
handleNext ==
  /\ Running
  /\ IF Len(queue) = 0
     THEN UNCHANGED <<current, queue>>
     ELSE /\ current' = Head(queue)
          /\ queue' = Tail(queue)
  /\ UNCHANGED <<problems, progress, thrown, evalVars>>

\* handleRestart that puts the problems back in line but keeps their
\* progress.
handleRestartKeepsProgress ==
  /\ Running
  /\ IF Len(problems) = 0
     THEN UNCHANGED <<current, queue, progress>>
     ELSE /\ current' = 0
          /\ queue' = Run(1, Len(problems) - 1)
          /\ progress' = progress
  /\ UNCHANGED <<problems, thrown, evalVars>>

\* handleRestart
handleRestart ==
  /\ Running
  /\ IF Len(problems) = 0
     THEN UNCHANGED <<current, queue, progress>>
     ELSE \E seeds \in SessionSeeds(problems) :
            LET s == createSession(problems, seeds)
            IN current' = s.current /\ queue' = s.queue /\ progress' = s.progress
  /\ UNCHANGED <<problems, thrown, evalVars>>

Next ==
  \/ handleReorder /\ UNCHANGED extraVars
  \/ handleReorderRaw /\ UNCHANGED extraVars
  \/ handleSolve /\ UNCHANGED extraVars
  \/ handleSkip /\ UNCHANGED extraVars
  \/ handleNext /\ UNCHANGED extraVars
  \/ handleRestart /\ UNCHANGED extraVars

Spec == Init /\ [][Next]_vars

\* The session driven through the rendered list only: every reorder is the
\* result of a drag gesture; the buttons' handlers are called in any state.
NextUI ==
  \/ handleReorder /\ UNCHANGED extraVars
  \/ handleSolve /\ UNCHANGED extraVars
  \/ handleSkip /\ UNCHANGED extraVars
  \/ handleNext /\ UNCHANGED extraVars
  \/ handleRestart /\ UNCHANGED extraVars

SpecUI == Init /\ [][NextUI]_vars

\* ------------------------------------------- the evaluation engine alone
\* Index lists of one input fragment: distinct indices in any order, one
\* value past the largest solutionLength included.
EvalIndexLists ==
  {s \in UNION {[1..k -> 0..MaxEvalTokens] : k \in 1..MaxEvalTokens} :
     \A i, j \in DOMAIN s : i # j => s[i] # s[j]}

\* evaluateFragments reads only `indices` of its input fragments, so they
\* are all handed in unlocked.
EvalFragments == {Fragment(s, FALSE) : s \in EvalIndexLists}

\* The lists of at most k fragments holding at most `tokens` tokens.
RECURSIVE FragmentLists(_, _)
FragmentLists(k, tokens) ==
  IF k = 0 THEN {<<>>}
  ELSE {<<>>} \cup
       UNION {{<<f>> \o rest :
                 rest \in FragmentLists(k - 1, tokens - Len(f.indices))} :
              f \in {g \in EvalFragments : Len(g.indices) <= tokens}}

\* The fragment lists handed to evaluateFragments: up to one token more
\* than the largest solutionLength.
EvalInputs == FragmentLists(MaxEvalFragments, MaxEvalTokens + 1)

NoSession ==
  /\ problems = <<>>
  /\ current = Null
  /\ queue = <<>>
  /\ progress = <<>>
  /\ thrown = "none"

InitEval ==
  /\ NoSession
  /\ evalInput \in EvalInputs
  /\ evalLength \in 1..MaxEvalTokens
  /\ evalResult = Pending
  /\ evalOther = Pending
  /\ ExtraIdle

\* One call evaluateFragments(evalInput, evalLength).
Evaluate ==
  /\ evalResult = Pending
  /\ evalResult' = evaluateFragments(evalInput, evalLength)
  /\ evalOther' = evaluateFragmentsPerFragment(evalInput, evalLength)
  /\ UNCHANGED <<sessionVars, evalInput, evalLength>>

\* A second call on the fragments the first call returned, as a second
\* Solve on an untouched list makes.
EvaluateAgain ==
  /\ evalResult.threw = "none"
  /\ evalInput' = evalResult.fragments
  /\ evalResult' = evaluateFragments(evalResult.fragments, evalLength)
  /\ evalOther' = evaluateFragmentsPerFragment(evalResult.fragments, evalLength)
  /\ UNCHANGED <<sessionVars, evalLength>>

NextEval ==
  \/ Evaluate /\ UNCHANGED extraVars
  \/ EvaluateAgain /\ UNCHANGED extraVars

SpecEval == InitEval /\ [][NextEval]_vars

\* ------------------------------------------------------- shuffle alone
\* Math.floor(random() * (index + 1)) for the generator output
\* random / RandomSteps.
swapIndex(random, index) == (random * (index + 1)) \div RandomSteps

\* The swap index drawn for each index length-1 .. 1: the first output of
\* the generator serves index length-1, the next one length-2, and so on.
swapsFrom(randoms, length) ==
  [index \in 1..(length - 1) |-> swapIndex(randoms[length - index], index)]

\* The item arrays handed to shuffle, equal elements included.
ShuffleInputs ==
  UNION {[1..n -> 1..MaxShuffleValues] : n \in 0..MaxShuffleLen}

\* The outputs a generator gives during one shuffle of `length` items.
RandomOutputs(length) ==
  IF length < 2 THEN {<<>>}
  ELSE [1..(length - 1) -> 0..(RandomSteps - 1)]

InitShuffle ==
  /\ NoSession
  /\ EvalIdle
  /\ shuffleItems \in ShuffleInputs
  /\ shuffleRandom \in RandomOutputs(Len(shuffleItems))
  /\ shuffleResult = NotShuffled
  /\ PersistIdle
  /\ SideIdle

\* One call shuffle(shuffleItems, seed), the seed leading to shuffleRandom.
Shuffle ==
  /\ ~shuffleResult.done
  /\ shuffleResult' =
       [done |-> TRUE,
        items |-> shuffle(shuffleItems, swapsFrom(shuffleRandom, Len(shuffleItems)))]
  /\ UNCHANGED <<sessionVars, evalVars, shuffleItems, shuffleRandom, persistVars, sideVars>>

NextShuffle == Shuffle

SpecShuffle == InitShuffle /\ [][NextShuffle]_vars

\* ---------------------------------------------------------- persistence
\* The problems.json files the page may fetch: the token counts of the
\* problems and, standing for the strings, which wording it is.
StoredShapes ==
  {p \in UNION {[1..n -> 1..MaxStoredTokens] : n \in 0..MaxStoredProblems} :
     SumSeq(p) <= MaxStoredTokens}

ProblemFiles == [tokens : StoredShapes, wording : 1..MaxWordings]

\* createProblemSetHash: `problems-${lengthComponent}-${digest}`, a digest of
\* the serialized content; files of different content get different
\* hashes here (collisions of the 32-bit digest are left out).
createProblemSetHash(file) == <<"problems", file.tokens, file.wording>>

\* A key that is the same for every problem set.
sessionKeyShared(hash) == <<"portuguese-reorder-session">>

\* The key App hands to usePersistentState.
sessionKey(hash) == <<"portuguese-reorder-session", hash>>

StorageKeys == {sessionKey(createProblemSetHash(f)) : f \in ProblemFiles}

\* A value of the hook's state: a SessionState, or null.
SessionValue(isNull, cur, q, prog) ==
  [isNull |-> isNull, current |-> cur, queue |-> q, progress |-> prog]

NullSession == SessionValue(TRUE, Null, <<>>, <<>>)

\* The session held in memory.
sessionState == SessionValue(~hasSession, current, queue, progress)

\* What storage holds under a key: nothing (getItem gives null), a text
\* JSON.parse rejects, or the JSON text of a value.
Absent == [kind |-> "absent", value |-> NullSession]
Garbage == [kind |-> "garbage", value |-> NullSession]

\* JSON.stringify(value); every part of a session (numbers, booleans,
\* strings, arrays, null) survives JSON unchanged.
serialize(value) == [kind |-> "json", value |-> value]

\* readStoredValue that takes a text it cannot parse for the stored null.
readStoredValueKeepsGarbage(key, initial) ==
  IF ~storageWorks THEN initial
  ELSE IF storage[key].kind = "absent" THEN initial
  ELSE storage[key].value

\* readStoredValue(key): the stored value, or initializer() when getItem
\* throws, gives null, or the text does not parse.
readStoredValue(key, initial) ==
  IF ~storageWorks THEN initial
  ELSE IF storage[key].kind = "absent" THEN initial
  ELSE IF storage[key].kind = "garbage" THEN initial
  ELSE storage[key].value

\* The write effect: storage.setItem(key, serialize(state)) in a try block.
setItem(key, value) ==
  IF storageWorks THEN storage' = [storage EXCEPT ![key] = serialize(value)]
  ELSE storage' = storage

InitPersist ==
  /\ problems = <<>>
  /\ current = Null
  /\ queue = <<>>
  /\ progress = <<>>
  /\ thrown = "none"
  /\ EvalIdle
  /\ ShuffleIdle
  /\ SideIdle
  /\ status = "loading"
  /\ problemHash = NoHash
  /\ hasSession = FALSE
  /\ writePending = FALSE
  /\ storage = [k \in StorageKeys |-> Absent]
  /\ storageWorks \in BOOLEAN
  /\ loads = 0

\* The fetch resolves with `file`: App renders with the hashed key, and the
\* effects of that commit run in order: the key-change effect reads the
\* stored value (or makes a fresh session) and sets it as the state; the
\* write effect stores the state of this render, which is still the null
\* the hook started with.  The next render shows the state just set; its
\* write effect is due.
fetchSucceeds(file) ==
  /\ status = "loading"
  /\ loads < MaxLoads
  /\ LET hash == createProblemSetHash(file)
         key == sessionKey(hash)
     IN /\ status' = "success"
        /\ problems' = file.tokens
        /\ problemHash' = hash
        /\ \E seeds \in SessionSeeds(file.tokens) :
             LET fresh == createSession(file.tokens, seeds)
                 initial == SessionValue(FALSE, fresh.current, fresh.queue, fresh.progress)
                 value == readStoredValue(key, initial)
             IN /\ hasSession' = ~value.isNull
                /\ current' = value.current
                /\ queue' = value.queue
                /\ progress' = value.progress
        /\ setItem(key, sessionState)
  /\ writePending' = TRUE
  /\ loads' = loads + 1
  /\ UNCHANGED <<thrown, evalVars, shuffleVars, sideVars, storageWorks>>

\* A write effect that lets the failure of setItem escape.
writeEffectThrows ==
  /\ status = "success"
  /\ writePending
  /\ setItem(sessionKey(problemHash), sessionState)
  /\ writePending' = FALSE
  /\ thrown' = IF storageWorks THEN thrown ELSE "storage"
  /\ UNCHANGED <<problems, current, queue, progress, evalVars, shuffleVars, sideVars,
                 status, problemHash, hasSession, storageWorks, loads>>

\* A write effect that stores nothing.
writeEffectForgets ==
  /\ status = "success"
  /\ writePending
  /\ writePending' = FALSE
  /\ UNCHANGED <<sessionVars, evalVars, shuffleVars, sideVars,
                 status, problemHash, hasSession, storage, storageWorks, loads>>

\* The write effect of the latest commit.
writeEffect ==
  /\ status = "success"
  /\ writePending
  /\ setItem(sessionKey(problemHash), sessionState)
  /\ writePending' = FALSE
  /\ UNCHANGED <<sessionVars, evalVars, shuffleVars, sideVars,
                 status, problemHash, hasSession, storageWorks, loads>>

\* What a handler's setSession leaves to the hook: a changed state is
\* rendered and its write effect becomes due.
Committed ==
  /\ status = "success"
  /\ writePending' = (writePending \/ <<current, queue, progress>>' # <<current, queue, progress>>)
  /\ UNCHANGED <<status, problemHash, storage, storageWorks, loads, shuffleVars, sideVars>>

\* The page is closed and opened again (or refreshed): memory is lost,
\* storage stays, and localStorage may or may not work this time.
reload ==
  /\ status = "success"
  /\ loads < MaxLoads
  /\ problems' = <<>>
  /\ current' = Null
  /\ queue' = <<>>
  /\ progress' = <<>>
  /\ thrown' = "none"
  /\ status' = "loading"
  /\ problemHash' = NoHash
  /\ hasSession' = FALSE
  /\ writePending' = FALSE
  /\ storageWorks' \in BOOLEAN
  /\ UNCHANGED <<evalVars, shuffleVars, sideVars, storage, loads>>

\* While the page is closed something else replaces a record by a text
\* that is not JSON (at most one record).
tamper(key) ==
  /\ status = "loading"
  /\ loads > 0
  /\ \A k \in StorageKeys : storage[k] # Garbage
  /\ storage' = [storage EXCEPT ![key] = Garbage]
  /\ UNCHANGED <<sessionVars, evalVars, shuffleVars, sideVars,
                 status, problemHash, hasSession, writePending, storageWorks, loads>>

NextPersist ==
  \/ \E file \in ProblemFiles : fetchSucceeds(file)
  \/ writeEffect
  \/ handleReorder /\ Committed /\ hasSession' = hasSession
  \/ handleSolve /\ Committed /\ hasSession' = hasSession
  \/ handleSkip /\ Committed /\ hasSession' = hasSession
  \/ handleNext /\ Committed /\ hasSession' = hasSession
  \/ handleRestart /\ Committed /\ hasSession' = (hasSession \/ Len(problems) > 0)
  \/ reload
  \/ \E key \in StorageKeys : tamper(key)

SpecPersist == InitPersist /\ [][NextPersist]_vars

\* --------------------------------------------------------- the controls
\* currentProgress is not null.
hasCurrentProgress == current # Null /\ current \in DOMAIN progress

canSolve == hasCurrentProgress /\ ~progress[current].solved

canSkip == hasCurrentProgress /\ ~progress[current].solved /\ Len(queue) > 0

showNext == hasCurrentProgress /\ progress[current].solved /\ Len(queue) > 0

\* showRestart that does not look at the queue.
showRestartIgnoresQueue ==
  hasCurrentProgress /\ progress[current].solved /\ Len(problems) > 0

showRestart ==
  hasCurrentProgress /\ progress[current].solved /\ Len(queue) = 0 /\ Len(problems) > 0

\* What the page lets the user do: drag an unlocked fragment of the
\* displayed problem, press Solve while it is enabled, and press the one of
\* Next, Restart and Skip that is shown (Skip while it is enabled).
NextOffered ==
  \/ handleReorder /\ UNCHANGED extraVars
  \/ canSolve /\ handleSolve /\ UNCHANGED extraVars
  \/ ~showNext /\ ~showRestart /\ canSkip /\ handleSkip /\ UNCHANGED extraVars
  \/ showNext /\ handleNext /\ UNCHANGED extraVars
  \/ ~showNext /\ showRestart /\ handleRestart /\ UNCHANGED extraVars

SpecOffered == Init /\ [][NextOffered]_vars

\* ------------------------------------------------- a user who finishes
\* The pairs of fragments that stand in the wrong order.
Inversions(fragments) ==
  Cardinality({pair \in (DOMAIN fragments) \X (DOMAIN fragments) :
                 /\ pair[1] < pair[2]
                 /\ fragments[pair[1]].indices[1] > fragments[pair[2]].indices[1]})

\* The displayed list reads in the order of the solution.
InOrder == hasCurrentProgress /\ Inversions(progress[current].fragments) = 0

\* The drags that bring the displayed list closer to the solution.
GoodDrags ==
  {next \in DragResults(progress[current].fragments) :
     Inversions(next) < Inversions(progress[current].fragments)}

sessionFrame == <<shuffleVars, persistVars, fetchVars, workerVars>>

\* Until the user settles, anything the page offers.
offered ==
  /\ ~diligent
  /\ \/ handleReorder
     \/ canSolve /\ handleSolve
     \/ ~showNext /\ ~showRestart /\ canSkip /\ handleSkip
     \/ showNext /\ handleNext
     \/ ~showNext /\ showRestart /\ handleRestart
  /\ UNCHANGED <<sessionFrame, diligent>>

\* From some moment on the user only works towards the solution.
settle ==
  /\ ~diligent
  /\ diligent' = TRUE
  /\ UNCHANGED <<sessionVars, evalVars, sessionFrame>>

\* The user drags an unlocked fragment to a better place.
placeFragment ==
  /\ diligent
  /\ canSolve
  /\ \E next \in GoodDrags : Reorder(next)
  /\ UNCHANGED <<evalVars, sessionFrame, diligent>>

\* The user presses Solve on a list that reads right.
solveInOrder ==
  /\ diligent
  /\ canSolve
  /\ InOrder
  /\ handleSolve
  /\ UNCHANGED <<sessionFrame, diligent>>

\* The user presses Next when it is shown.
nextWhenShown ==
  /\ diligent
  /\ showNext
  /\ handleNext
  /\ UNCHANGED <<sessionFrame, diligent>>

NextDiligent ==
  \/ offered
  \/ settle
  \/ placeFragment
  \/ solveInOrder
  \/ nextWhenShown

\* The user does settle, and then keeps going while there is something to
\* do.
SpecDiligent ==
  /\ Init
  /\ [][NextDiligent]_vars
  /\ WF_vars(settle)
  /\ WF_vars(placeFragment)
  /\ WF_vars(solveInOrder)
  /\ WF_vars(nextWhenShown)

\* -------------------------------------------------------------- loading
\* An entry of the payload, by what isProblem looks at; `tokens` is the
\* number of its tokens.
Entry(isObject, tokensIsArray, tokensAreStrings, noteIsString, tokens) ==
  [isObject |-> isObject, tokensIsArray |-> tokensIsArray,
   tokensAreStrings |-> tokensAreStrings, noteIsString |-> noteIsString,
   tokens |-> tokens]

\* Well-formed entries, and entries failing one test of isProblem each: not
\* an object, tokens not an array, a token that is no string, no string
\* note.
PayloadEntries ==
  {Entry(TRUE, TRUE, TRUE, TRUE, n) : n \in 1..MaxEntryTokens}
    \cup {Entry(FALSE, FALSE, FALSE, FALSE, 0),
          Entry(TRUE, FALSE, FALSE, TRUE, 0),
          Entry(TRUE, TRUE, FALSE, TRUE, 1),
          Entry(TRUE, TRUE, TRUE, FALSE, 1)}

\* What response.json() may give: something that is no array, or an array
\* of entries.
Payloads ==
  {[isArray |-> FALSE, entries |-> <<>>]}
    \cup {[isArray |-> TRUE, entries |-> e] :
            e \in UNION {[1..n -> PayloadEntries] : n \in 0..MaxEntries}}

isProblem(value) ==
  /\ value.isObject
  /\ value.tokensIsArray
  /\ value.tokensAreStrings
  /\ value.noteIsString

\* normalizeProblems that leaves out the entries isProblem rejects.
normalizeProblemsDropsEntries(data) ==
  IF ~data.isArray THEN [threw |-> "payload", problems |-> <<>>]
  ELSE LET IsGood(entry) == isProblem(entry)
           good == SelectSeq(data.entries, IsGood)
       IN [threw |-> "none", problems |-> [i \in DOMAIN good |-> good[i].tokens]]

\* normalizeProblems(data): the problems (their token counts), or the error
\* thrown.
normalizeProblems(data) ==
  IF ~data.isArray THEN [threw |-> "payload", problems |-> <<>>]
  ELSE IF \E i \in DOMAIN data.entries : ~isProblem(data.entries[i])
  THEN [threw |-> "entry", problems |-> <<>>]
  ELSE [threw |-> "none",
        problems |-> [i \in DOMAIN data.entries |-> data.entries[i].tokens]]

\* A fetch the effect started, with the state of its AbortController.
Request(aborted, settled) == [aborted |-> aborted, settled |-> settled]

\* What a fetch that was not aborted can reject with (no connection, a
\* response that is not ok, a body that is no JSON), and what an aborted
\* one rejects with.
FetchErrors == {"TypeError", "Error", "SyntaxError"}
AbortErrors == {"AbortError"}

\* The page without localStorage, its first fetch under way.
InitFetch ==
  /\ NoSession
  /\ EvalIdle
  /\ ShuffleIdle
  /\ WorkerIdle
  /\ UserIdle
  /\ status = "loading"
  /\ problemHash = NoHash
  /\ hasSession = FALSE
  /\ writePending = FALSE
  /\ storage = NoStorage
  /\ storageWorks = FALSE
  /\ loads = 0
  /\ requests = <<Request(FALSE, FALSE)>>

\* setState({status: 'success', problems, hash}): the key changes and the
\* hook, having no storage, takes a fresh session from the initializer.
loaded(probs) ==
  /\ status' = "success"
  /\ problems' = probs
  /\ problemHash' = createProblemSetHash([tokens |-> probs, wording |-> 1])
  /\ hasSession' = TRUE
  /\ \E seeds \in SessionSeeds(probs) :
       LET s == createSession(probs, seeds)
       IN current' = s.current /\ queue' = s.queue /\ progress' = s.progress

\* setState({status: 'error', message}): problems and key are null again
\* and the initializer gives the hook null.
failed ==
  /\ status' = "error"
  /\ problems' = <<>>
  /\ problemHash' = NoHash
  /\ hasSession' = FALSE
  /\ current' = Null
  /\ queue' = <<>>
  /\ progress' = <<>>

LoadState == <<status, problems, problemHash, hasSession, current, queue, progress>>

\* The fetch of request i delivers `payload`.  A fetch whose signal has
\* aborted rejects instead, so this happens to live requests only.
fetchResolves(i, payload) ==
  /\ i \in DOMAIN requests
  /\ ~requests[i].settled
  /\ ~requests[i].aborted
  /\ requests' = [requests EXCEPT ![i].settled = TRUE]
  /\ IF normalizeProblems(payload).threw = "none"
     THEN loaded(normalizeProblems(payload).problems)
     ELSE failed
  /\ UNCHANGED <<thrown, evalVars, shuffleVars, workerVars, userVars,
                 writePending, storage, storageWorks, loads>>

\* The catch handler without its two tests for an abort.
fetchRejectsReportsAbort(i, error) ==
  /\ i \in DOMAIN requests
  /\ ~requests[i].settled
  /\ error \in IF requests[i].aborted THEN AbortErrors ELSE FetchErrors
  /\ requests' = [requests EXCEPT ![i].settled = TRUE]
  /\ failed
  /\ UNCHANGED <<thrown, evalVars, shuffleVars, workerVars, userVars,
                 writePending, storage, storageWorks, loads>>

\* The fetch of request i rejects with `error`: the catch handler returns
\* when the signal has aborted or the error is an AbortError, and reports
\* any other error.
fetchRejects(i, error) ==
  /\ i \in DOMAIN requests
  /\ ~requests[i].settled
  /\ error \in IF requests[i].aborted THEN AbortErrors ELSE FetchErrors
  /\ requests' = [requests EXCEPT ![i].settled = TRUE]
  /\ IF requests[i].aborted THEN UNCHANGED LoadState
     ELSE IF error = "AbortError" THEN UNCHANGED LoadState
     ELSE failed
  /\ UNCHANGED <<thrown, evalVars, shuffleVars, workerVars, userVars,
                 writePending, storage, storageWorks, loads>>

\* The cleanup of the effect: abortController.abort() of the latest fetch.
cleanup ==
  /\ ~requests[Len(requests)].aborted
  /\ requests' = [requests EXCEPT ![Len(requests)].aborted = TRUE]
  /\ UNCHANGED <<sessionVars, evalVars, shuffleVars, workerVars, userVars, persistVars>>

\* The effect runs again after its cleanup (as React.StrictMode makes it)
\* and starts another fetch.
effectAgain ==
  /\ requests[Len(requests)].aborted
  /\ Len(requests) < MaxRequests
  /\ requests' = Append(requests, Request(FALSE, FALSE))
  /\ UNCHANGED <<sessionVars, evalVars, shuffleVars, workerVars, userVars, persistVars>>

NextFetch ==
  \/ \E i \in 1..MaxRequests, payload \in Payloads : fetchResolves(i, payload)
  \/ \E i \in 1..MaxRequests, error \in FetchErrors \cup AbortErrors : fetchRejects(i, error)
  \/ cleanup
  \/ effectAgain

SpecFetch == InitFetch /\ [][NextFetch]_vars

\* ------------------------------------------------------- service worker
\* A response to the request for problems.json: where the worker took it
\* from, which body it carries and whether its status is ok (2xx).
Response(from, version, ok) == [from |-> from, version |-> version, ok |-> ok]

\* What the server can answer: some version of problems.json with status
\* 200, or an error page with another status.
ServerResponses == {Response("network", v, ok) : v \in 1..MaxVersions, ok \in BOOLEAN}

\* The response the worker makes up when it has nothing.
Offline == Response("offline", 0, FALSE)

\* response.clone() as an entry of DATA_CACHE, and as cache.match returns it.
Cached(response) == Response("cache", response.version, response.ok)

\* Only the worker runs: nothing is cached, no put is under way, nothing
\* has been answered.
InitWorker ==
  /\ NoSession
  /\ EvalIdle
  /\ ShuffleIdle
  /\ PersistIdle
  /\ FetchIdle
  /\ UserIdle
  /\ swCache = NoResponse
  /\ swPending = {}
  /\ swResponse = NoResponse

workerFrame == <<sessionVars, evalVars, shuffleVars, persistVars, fetchVars, userVars>>

\* networkFirst(request) when fetch(request) resolves with `response`,
\* whatever its status: cache.put(request, response.clone()) is started and
\* not awaited, and the response is returned.
networkFirstOnline(response) ==
  /\ swPending' = swPending \cup {Cached(response)}
  /\ swResponse' = response
  /\ UNCHANGED <<swCache, workerFrame>>

\* networkFirst(request) when fetch(request) rejects: the entry of the
\* cache if there is one, else the 503 response.
networkFirstOffline ==
  /\ swResponse' = IF swCache # NoResponse THEN swCache ELSE Offline
  /\ UNCHANGED <<swCache, swPending, workerFrame>>

\* A cache.put that was started finishes and replaces the entry.
putFinishes(entry) ==
  /\ entry \in swPending
  /\ swCache' = entry
  /\ swPending' = swPending \ {entry}
  /\ UNCHANGED <<swResponse, workerFrame>>

\* A cache.put that was started rejects (its promise is dropped).
putFails(entry) ==
  /\ entry \in swPending
  /\ swPending' = swPending \ {entry}
  /\ UNCHANGED <<swCache, swResponse, workerFrame>>

NextWorker ==
  \/ \E response \in ServerResponses : networkFirstOnline(response)
  \/ networkFirstOffline
  \/ \E entry \in swPending : putFinishes(entry)
  \/ \E entry \in swPending : putFails(entry)

SpecWorker == InitWorker /\ [][NextWorker]_vars

\* ================================================================ claims
NumProblems == Len(problems)
ProblemIndices == 0..(NumProblems - 1)

\* How often a problem index occurs in queue.
Occurrences(i) == Cardinality({k \in DOMAIN queue : queue[k] = i})

\* A problem that is neither current nor queued.
Retired(i) == i # current /\ Occurrences(i) = 0

\* A step of one of the handlers other than handleRestart.
NonRestartStep ==
  handleReorder \/ handleReorderRaw \/ handleSolve \/ handleSkip \/ handleNext

\* C1: in every reachable session state, whatever handlers were called and
\* in whatever order, the current problem index is not an element of queue.
C1_CurrentNotInQueue == current \notin Range(queue)

\* Witness of C1: Skip has rotated the queue twice and Solve has solved the
\* problem it brought up: problem 2 is current and solved, 0 and 1 wait.
C1_Witness ==
  /\ current = 2
  /\ queue = <<0, 1>>
  /\ progress[2].solved

\* The three-way partition of the problem indices: each one is current, or
\* occurs exactly once in queue, or is retired with its solved flag true.
Partitioned ==
  \A i \in ProblemIndices :
    \/ i = current /\ Occurrences(i) = 0
    \/ i # current /\ Occurrences(i) = 1
    \/ Retired(i) /\ progress[i].solved

\* A call of Next while the current problem is unsolved, which the UI never
\* offers (showNext).
NextWhileUnsolved ==
  /\ handleNext
  /\ current # Null
  /\ ~progress[current].solved

\* C2 as claimed: every problem index is current, or occurs exactly once in
\* queue, or is retired with its solved flag true, in every state reachable
\* by any sequence of handler calls.
C2_Original == Partitioned

\* C2 as amended: the three-way partition holds after Initialize and is
\* kept by every Reorder, Solve, Skip and Restart and by every Next called
\* while the current problem is solved; so it holds in every state reached
\* by handler calls in which Next is called only when the UI shows it.
C2_PartitionKept ==
  /\ Partitioned
  /\ [][(Partitioned /\ ~NextWhileUnsolved) => Partitioned']_vars

\* Witness of C2: a problem has been solved and retired by Next, a second
\* one is current and the third waits in the queue.
C2_Witness ==
  /\ NumProblems = 3
  /\ Partitioned
  /\ \E i \in ProblemIndices : Retired(i) /\ progress[i].solved
  /\ Len(queue) = 1
  /\ current # Null

\* C3: Skip with an unsolved current problem and a non-empty queue makes the
\* head of queue the new current and sets queue to the old tail followed by
\* the old current (current = A, queue = [B, C] becomes current = B,
\* queue = [C, A]); the progress of every problem is unchanged.
C3_SkipRotates ==
  [][(/\ handleSkip
      /\ current # Null
      /\ ~progress[current].solved
      /\ Len(queue) > 0)
     => (/\ current' = Head(queue)
         /\ queue' = Tail(queue) \o <<current>>
         /\ Len(queue') = Len(queue)
         /\ progress' = progress)]_vars

\* Witness of C3: from current = 0, queue = [1, 2] one Skip has produced
\* current = 1, queue = [2, 0], with every problem still unsolved.
C3_Witness ==
  /\ current = 1
  /\ queue = <<2, 0>>
  /\ \A i \in ProblemIndices : ~progress[i].solved

\* C4: Skip leaves current, queue and progress unchanged when there is no
\* current problem, when the current problem is already solved, or when
\* queue is empty.
C4_SkipNoOp ==
  [][(/\ handleSkip
      /\ \/ current = Null
         \/ progress[current].solved
         \/ Len(queue) = 0)
     => UNCHANGED <<current, queue, progress>>]_vars

\* Witness of C4: the current problem is solved while problems still wait in
\* the queue, so that Skip finds something to skip to and must not.
C4_Witness ==
  /\ current # Null
  /\ progress[current].solved
  /\ Len(queue) > 0
  /\ thrown = "none"

\* C5: Next is a no-op when queue is empty; otherwise it makes the head of
\* queue the new current and removes it from queue, and the old current is
\* retired: no later Reorder, Solve, Skip or Next puts a retired problem
\* back into queue or makes it current again.
C5_NextRetires ==
  /\ [][(handleNext /\ Len(queue) = 0)
          => UNCHANGED <<current, queue, progress>>]_vars
  /\ [][(handleNext /\ Len(queue) > 0)
          => (/\ current' = Head(queue)
              /\ queue' = Tail(queue)
              /\ current' # current
              /\ current \notin Range(queue')
              /\ progress' = progress)]_vars
  /\ [][NonRestartStep
          => \A i \in ProblemIndices :
               Retired(i) => (i # current' /\ i \notin Range(queue'))]_vars

\* Witness of C5: of three problems the first two have been retired by
\* Next, one of them after further Skip and Solve calls.
C5_Witness ==
  /\ NumProblems = 3
  /\ current = 0
  /\ queue = <<>>
  /\ Retired(1) /\ Retired(2)
  /\ progress[1].solved

\* C6: Solve replaces the current problem's fragments with the evaluation
\* result and sets solved to (old solved OR isSolved); and a solved flag,
\* once true, stays true under every later Reorder, Solve, Skip and Next.
C6_SolvedSticks ==
  /\ [][(/\ handleSolve
          /\ current # Null
          /\ evaluateFragments(progress[current].fragments,
                               tokensLength(current)).threw = "none")
         => LET evaluation == evaluateFragments(progress[current].fragments,
                                                tokensLength(current))
            IN /\ progress'[current].fragments = evaluation.fragments
               /\ progress'[current].solved =
                    (progress[current].solved \/ evaluation.isSolved)]_vars
  /\ [][NonRestartStep
          => \A i \in ProblemIndices :
               progress[i].solved => progress'[i].solved]_vars

\* Witness of C6: a solved problem was reordered into a list that does not
\* evaluate as solved and Solve ran on it: its fragments are the unlocked
\* result of the evaluation and its solved flag is still true.
C6_Witness ==
  /\ current # Null
  /\ tokensLength(current) >= 2
  /\ progress[current].solved
  /\ progress[current].fragments =
       <<Fragment(Run(1, tokensLength(current)), FALSE)>>

\* The lists handleReorder can be called with in the current state.
ReorderInputs ==
  IF current = Null THEN RawOrders(1)
  ELSE DragResults(progress[current].fragments) \cup RawOrders(tokensLength(current))

\* C7: Reorder(newOrder) with a current problem changes only the fragments
\* of the current problem, to newOrder: its solved flag, current, queue and
\* the progress of every other problem are unchanged; with no current
\* problem the whole session is unchanged.
C7_ReorderFrame ==
  [][\A newOrder \in ReorderInputs :
       Reorder(newOrder)
       => (/\ current' = current
           /\ queue' = queue
           /\ IF current = Null
              THEN progress' = progress
              ELSE /\ progress'[current].fragments = newOrder
                   /\ progress'[current].solved = progress[current].solved
                   /\ \A i \in ProblemIndices \ {current} :
                        progress'[i] = progress[i])]_vars

\* Witness of C7: Reorder has replaced the fragments of a solved current
\* problem by the empty list and its solved flag is still true, while the
\* problems in the queue still hold one fragment per token.
C7_Witness ==
  /\ current # Null
  /\ progress[current].solved
  /\ progress[current].fragments = <<>>
  /\ Len(queue) > 0
  /\ \A k \in DOMAIN queue :
       Len(progress[queue[k]].fragments) = tokensLength(queue[k])

\* C8: Solve changes only the progress entry of the current problem:
\* current and queue are unchanged and so is the progress of every other
\* problem; with no current problem the whole session is unchanged.
C8_SolveFrame ==
  [][handleSolve
     => (/\ current' = current
         /\ queue' = queue
         /\ current = Null => progress' = progress
         /\ \A i \in ProblemIndices \ {current} :
              progress'[i] = progress[i])]_vars

\* Witness of C8: Solve has solved the first of three problems (its tokens
\* are one locked fragment) and the queue still holds the other two.
C8_Witness ==
  /\ NumProblems = 3
  /\ current = 0
  /\ queue = <<1, 2>>
  /\ progress[0].solved
  /\ progress[0].fragments = <<Fragment(Run(0, tokensLength(0) - 1), TRUE)>>

\* ------------------------------------------ claims about evaluateFragments
\* s[1] < s[2] < ..
IsAscending(s) == \A i \in 1..(Len(s) - 1) : s[i] < s[i + 1]

\* s[i + 1] = s[i] + 1 throughout.
IsConsecutive(s) == \A i \in 1..(Len(s) - 1) : s[i + 1] = s[i] + 1

\* The fragments hold ascending indices and together hold every index
\* 0..n-1 exactly once (the data model's invariant of a fragment list).
IsPartition(fragments, n) ==
  /\ \A i \in DOMAIN fragments : IsAscending(fragments[i].indices)
  /\ Len(orderedIndices(fragments)) = n
  /\ Range(orderedIndices(fragments)) = 0..(n - 1)

\* Every fragment is moreover a run a, a+1, .., a+k.
IsRunPartition(fragments, n) ==
  /\ IsPartition(fragments, n)
  /\ \A i \in DOMAIN fragments : IsConsecutive(fragments[i].indices)

\* The number of flattened positions before fragment i.
Offset(fragments, i) == Len(orderedIndices(SubSeq(fragments, 1, i - 1)))

\* Every flattened position fragment i occupies holds the original index
\* equal to that position.
FragmentCorrect(fragments, i) ==
  \A k \in DOMAIN fragments[i].indices :
    fragments[i].indices[k] = Offset(fragments, i) + k - 1

\* No flattened position fragment i occupies holds its own index.
FragmentAllWrong(fragments, i) ==
  \A k \in DOMAIN fragments[i].indices :
    fragments[i].indices[k] # Offset(fragments, i) + k - 1

IndexSet(fragment) == Range(fragment.indices)

Evaluated == evalResult.threw = "none"

IsDisplay120 ==
  /\ evalLength = 3
  /\ [i \in DOMAIN evalInput |-> evalInput[i].indices] = << <<1>>, <<2>>, <<0>> >>

\* C10 as claimed: evaluate never merges unlocked fragments: every unlocked
\* fragment of the result has exactly the index set of one input fragment,
\* and for the display [1], [2], [0] the result is three unlocked
\* single-token fragments.
C10_Original ==
  (Evaluated /\ IsRunPartition(evalInput, evalLength))
  => LET out == evalResult.fragments
     IN /\ \A j \in DOMAIN out :
             ~out[j].locked
             => \E i \in DOMAIN evalInput : IndexSet(out[j]) = IndexSet(evalInput[i])
        /\ IsDisplay120
             => out = << Fragment(<<1>>, FALSE), Fragment(<<2>>, FALSE),
                         Fragment(<<0>>, FALSE) >>

\* C10 as amended: evaluate merges neighbouring unlocked tokens that hold
\* consecutive original indices and never merges an unlocked token with a
\* locked one: the result keeps the flattened order of the input; every
\* unlocked fragment of the result holds only wrongly placed tokens, with
\* consecutive indices, and is maximal (the unlocked fragment after it does
\* not continue its run); when the input fragments are contiguous ascending
\* runs, an unlocked result fragment holds whole input fragments only.  For
\* the display [1], [2], [0] the result is [1, 2], [0], both unlocked.
C10_UnlockedRuns ==
  Evaluated
  => LET out == evalResult.fragments
     IN /\ orderedIndices(out) = orderedIndices(evalInput)
        /\ \A j \in DOMAIN out :
             ~out[j].locked
             => /\ FragmentAllWrong(out, j)
                /\ IsConsecutive(out[j].indices)
        /\ \A j \in 1..(Len(out) - 1) :
             (~out[j].locked /\ ~out[j + 1].locked)
             => out[j].indices[Len(out[j].indices)] + 1 # out[j + 1].indices[1]
        /\ IsRunPartition(evalInput, evalLength)
             => \A j \in DOMAIN out, i \in DOMAIN evalInput :
                  (~out[j].locked /\ IndexSet(evalInput[i]) \cap IndexSet(out[j]) # {})
                  => IndexSet(evalInput[i]) \subseteq IndexSet(out[j])
        /\ IsDisplay120
             => /\ out = << Fragment(<<1, 2>>, FALSE), Fragment(<<0>>, FALSE) >>
                /\ evalResult.lockedCount = 0
                /\ ~evalResult.isSolved

\* Witness of C10: the display [1], [2], [0] has been evaluated and came
\* back as two fragments.
C10_Witness ==
  /\ IsDisplay120
  /\ Evaluated
  /\ Len(evalResult.fragments) = 2

\* The index lists of the fragments, in order.
IndexLists(fragments) == [i \in DOMAIN fragments |-> fragments[i].indices]

\* C11: on Solve every run of neighbouring tokens with consecutive original
\* indices is merged into a single fragment, whether or not the run sits in
\* its final position: the result keeps the flattened order, no fragment of
\* the result is followed by one that continues its run, and the display
\* [1], [2], [0] comes back as [1, 2], [0].
C11_RunsMerged ==
  Evaluated
  => LET out == evalResult.fragments
         ordered == orderedIndices(evalInput)
     IN /\ orderedIndices(out) = ordered
        /\ \A j \in 1..(Len(out) - 1) :
             out[j].indices[Len(out[j].indices)] + 1 # out[j + 1].indices[1]
        /\ \A k \in 1..(Len(ordered) - 1) :
             ordered[k + 1] = ordered[k] + 1
             => \E j \in DOMAIN out :
                  {ordered[k], ordered[k + 1]} \subseteq IndexSet(out[j])
        /\ IsDisplay120 => IndexLists(out) = << <<1, 2>>, <<0>> >>

\* Witness of C11: the display [2], [0], [1] has been evaluated: the run
\* 0, 1 sits one position too far right and came back as one fragment.
C11_Witness ==
  /\ evalLength = 3
  /\ Evaluated
  /\ IndexLists(evalResult.fragments) = << <<2>>, <<0, 1>> >>
  /\ ~evalResult.fragments[2].locked

\* The fragment of the list that holds flattened position k (1-based).
FragmentAt(fragments, k) ==
  CHOOSE j \in DOMAIN fragments :
    /\ Offset(fragments, j) < k
    /\ k <= Offset(fragments, j) + Len(fragments[j].indices)

\* C12: a locked fragment is merged into the preceding fragment of the
\* result exactly when that one is locked and ends in the index just before
\* this one's first index: a correctly placed token shares its result
\* fragment with the token before it exactly when that token is correctly
\* placed too and holds the preceding index; a result fragment is locked
\* exactly when its tokens are correctly placed, and a locked fragment
\* holds its indices in ascending order without gaps under the id of that
\* index list.
C12_LockedMerge ==
  Evaluated
  => LET out == evalResult.fragments
         ordered == orderedIndices(evalInput)
         correct == [k \in DOMAIN ordered |-> ordered[k] = k - 1]
     IN /\ orderedIndices(out) = ordered
        /\ \A k \in DOMAIN ordered : out[FragmentAt(out, k)].locked = correct[k]
        /\ \A k \in 2..Len(ordered) :
             correct[k]
             => ((FragmentAt(out, k) = FragmentAt(out, k - 1))
                 <=> (correct[k - 1] /\ ordered[k - 1] + 1 = ordered[k]))
        /\ \A j \in DOMAIN out :
             out[j].locked
             => /\ IsAscending(out[j].indices)
                /\ IsConsecutive(out[j].indices)
                /\ out[j] = Fragment(out[j].indices, TRUE)

\* Witness of C12: three single-token fragments in solution order went in
\* and came back merged into one locked fragment.
C12_Witness ==
  /\ IndexLists(evalInput) = << <<0>>, <<1>>, <<2>> >>
  /\ Evaluated
  /\ evalResult.fragments = << Fragment(<<0, 1, 2>>, TRUE) >>

\* The number of indices held by the locked fragments of a list.
LockedTokens(fragments) ==
  SumSeq([i \in DOMAIN fragments |->
            IF fragments[i].locked THEN Len(fragments[i].indices) ELSE 0])

\* C13: for every input evaluate accepts, lockedCount is the total number
\* of indices held by the fragments flagged locked in the returned list,
\* and isSolved is true exactly when lockedCount equals solutionLength.
C13_LockedCount ==
  Evaluated
  => /\ evalResult.lockedCount = LockedTokens(evalResult.fragments)
     /\ evalResult.isSolved <=> (evalResult.lockedCount = evalLength)

\* Witness of C13: a 3-token list with two tokens exchanged was evaluated:
\* one token is locked and the list is not solved.
C13_Witness ==
  /\ evalLength = 3
  /\ Evaluated
  /\ evalResult.lockedCount = 1
  /\ ~evalResult.isSolved
  /\ IsPartition(evalInput, evalLength)

\* C14: for every fragmentation of 0..n-1 into ascending contiguous
\* fragments laid out in solution order (flattened indices 0, 1, .., n-1),
\* evaluate returns isSolved = true, lockedCount = n and exactly one
\* fragment, locked, whose indices are 0..n-1.
C14_SolutionOrderSolved ==
  (/\ evalResult # Pending
   /\ IsRunPartition(evalInput, evalLength)
   /\ orderedIndices(evalInput) = Run(0, evalLength - 1))
  => /\ evalResult.threw = "none"
     /\ evalResult.isSolved
     /\ evalResult.lockedCount = evalLength
     /\ evalResult.fragments = << Fragment(Run(0, evalLength - 1), TRUE) >>

\* Witness of C14: the fragmentation [0, 1], [2] of a 3-token solution was
\* evaluated and came back solved.
C14_Witness ==
  /\ IndexLists(evalInput) = << <<0, 1>>, <<2>> >>
  /\ evalLength = 3
  /\ evalResult.threw = "none"
  /\ evalResult.isSolved

\* C15: evaluate is idempotent: called again on the fragments it returned,
\* with the same length, it returns the same fragments (order, indices,
\* ids and locked flags), the same lockedCount and the same isSolved.
C15_Idempotent ==
  [][EvaluateAgain => evalResult' = evalResult]_vars

\* Witness of C15: the list [0], [2], [1] was evaluated, which locked its
\* first fragment, and the returned list was evaluated again and came back
\* as it went in.
C15_Witness ==
  /\ evalInput = << Fragment(<<0>>, TRUE), Fragment(<<2>>, FALSE),
                    Fragment(<<1>>, FALSE) >>
  /\ evalResult.threw = "none"
  /\ evalResult.fragments = evalInput
  /\ evalResult.lockedCount = 1

\* C16: evaluate raises an error, and returns no result, whenever the total
\* number of indices across the fragments differs from solutionLength, and
\* whenever some original index occurs more than once across the fragments.
C16_MalformedThrows ==
  (/\ evalResult # Pending
   /\ \/ Len(orderedIndices(evalInput)) # evalLength
      \/ HasDuplicate(orderedIndices(evalInput)))
  => /\ evalResult.threw \in {"length", "duplicate"}
     /\ evalResult.fragments = <<>>
     /\ ~evalResult.isSolved

\* Witness of C16: a list with the right number of tokens in which one
\* index occurs twice was handed in, and the call threw.
C16_Witness ==
  /\ Len(orderedIndices(evalInput)) = evalLength
  /\ HasDuplicate(orderedIndices(evalInput))
  /\ evalResult.threw = "duplicate"

\* ------------------------------------- claims about lists handed to Solve
\* The union of the fragments' indices is exactly {0 .. n-1}.
CoversAll(fragments, n) == Range(orderedIndices(fragments)) = 0..(n - 1)

\* C17: at Solve time the evaluation engine re-checks full coverage: for
\* every fragment list handed in by Reorder whose union of indices is not
\* exactly {0 .. n-1}, Solve raises an error instead of producing
\* locked/merged fragments.
C17_CoverageRechecked ==
  [][(/\ handleSolve
      /\ current # Null
      /\ ~CoversAll(progress[current].fragments, tokensLength(current)))
     => (thrown' # "none" /\ progress' = progress)]_vars

\* Every index 0 .. n-1 occurs in exactly one fragment, exactly once, and
\* no other index occurs.
EachIndexOnce(fragments, n) ==
  /\ Len(orderedIndices(fragments)) = n
  /\ CoversAll(fragments, n)

\* C18: in every session state reachable from Initialize by Solve, Skip,
\* Next, Restart and UI reorders, each problem's fragment list partitions
\* its token positions: every index 0 .. tokens.length-1 occurs in exactly
\* one fragment, exactly once, and no other index occurs.
C18_FragmentsPartition ==
  \A i \in ProblemIndices : EachIndexOnce(progress[i].fragments, tokensLength(i))

\* Witness of C18: Solve has merged two tokens of a 3-token problem into
\* one unlocked fragment and a drag has moved it behind the third token.
C18_Witness ==
  /\ current # Null
  /\ progress[current].fragments =
       << Fragment(<<0>>, FALSE), Fragment(<<1, 2>>, FALSE) >>

\* The indices held by the locked fragments of a list.
LockedIndices(fragments) ==
  UNION {IndexSet(fragments[j]) : j \in {k \in DOMAIN fragments : fragments[k].locked}}

\* C19: locks are permanent within a problem: once Solve has flagged a
\* fragment locked, every token position of it still belongs to a locked
\* fragment after every later UI reorder and every further Solve (until
\* Restart).
C19_LocksPermanent ==
  [][(handleReorder \/ handleSolve)
     => \A i \in ProblemIndices :
          LockedIndices(progress[i].fragments)
            \subseteq LockedIndices(progress'[i].fragments)]_vars

\* C20: in every state reachable by Solve and UI reorders every locked
\* fragment occupies its correct final positions: each index i it holds
\* sits at flattened position i of the current fragment order.
C20_LockedInPlace ==
  \A i \in ProblemIndices :
    \A j \in DOMAIN progress[i].fragments :
      progress[i].fragments[j].locked => FragmentCorrect(progress[i].fragments, j)

\* --------------------------------------- claims about the fragments' shape
\* C21: in every reachable session state each fragment is a contiguous
\* ascending run of original positions: its indices are a, a+1, .., a+k for
\* some a and k >= 0.
C21_FragmentsAreRuns ==
  \A i \in ProblemIndices :
    \A j \in DOMAIN progress[i].fragments :
      LET indices == progress[i].fragments[j].indices
      IN /\ Len(indices) >= 1
         /\ \A k \in DOMAIN indices : indices[k] = indices[1] + k - 1

\* Witness of C21: Solve has merged the tokens 1 and 2 of a 3-token problem,
\* shown ahead of token 0, into one unlocked fragment.
C21_Witness ==
  /\ current # Null
  /\ IndexLists(progress[current].fragments) = << <<1, 2>>, <<0>> >>

\* C22: in every reachable session state each fragment's id is "fragment-"
\* followed by its indices in ascending order joined by "-"; so two
\* fragments have the same id exactly when they cover the same positions,
\* and the ids of one problem's fragment list are pairwise distinct.
C22_IdsFromIndices ==
  \A i \in ProblemIndices :
    LET fragments == progress[i].fragments
    IN /\ \A j \in DOMAIN fragments :
            fragments[j].id = <<"fragment">> \o SortAscending(fragments[j].indices)
       /\ \A j, k \in DOMAIN fragments :
            (fragments[j].id = fragments[k].id)
              <=> (IndexSet(fragments[j]) = IndexSet(fragments[k]))
       /\ \A j, k \in DOMAIN fragments :
            j # k => fragments[j].id # fragments[k].id

\* Witness of C22: a merged fragment named after both of its indices stands
\* behind a single-token fragment.
C22_Witness ==
  /\ current # Null
  /\ Len(progress[current].fragments) = 2
  /\ progress[current].fragments[1].id = <<"fragment", 2>>
  /\ progress[current].fragments[2].id = <<"fragment", 0, 1>>

\* ------------------------------------------------- claims about shuffle
\* How often a value occurs in a sequence.
Count(s, v) == Cardinality({k \in DOMAIN s : s[k] = v})

\* C23: shuffle returns a permutation of items (same length, same multiset
\* of elements) for every input and every sequence of generator outputs in
\* [0, 1): each swap index lies in 0 .. i; the input is not modified; for
\* inputs of length 0 or 1 the result equals the input.
C23_ShufflePermutes ==
  /\ [](shuffleResult.done
        => /\ Len(shuffleResult.items) = Len(shuffleItems)
           /\ \A v \in 1..MaxShuffleValues :
                Count(shuffleResult.items, v) = Count(shuffleItems, v)
           /\ Len(shuffleItems) < 2 => shuffleResult.items = shuffleItems)
  /\ [](\A i \in 1..(Len(shuffleItems) - 1) :
          swapIndex(shuffleRandom[Len(shuffleItems) - i], i) \in 0..i)
  /\ [][Shuffle => shuffleItems' = shuffleItems]_vars

\* Witness of C23: four items with equal elements among them were shuffled
\* with the smallest generator output throughout and came back in another
\* order.
C23_Witness ==
  /\ shuffleResult.done
  /\ shuffleItems = <<1, 1, 2, 2>>
  /\ shuffleRandom = <<0, 0, 0>>
  /\ shuffleResult.items = <<1, 2, 2, 1>>

\* ------------------------------------- claims about Initialize and Restart
\* What Initialize promises of the session <<cur, q, prog>> for the problem
\* set `probs` (the token count of each problem).
Initialized(probs, cur, q, prog) ==
  IF Len(probs) = 0
  THEN cur = Null /\ q = <<>> /\ prog = <<>>
  ELSE /\ cur = 0
       /\ q = [k \in 1..(Len(probs) - 1) |-> k]
       /\ DOMAIN prog = 0..(Len(probs) - 1)
       /\ \A i \in 0..(Len(probs) - 1) :
            /\ ~prog[i].solved
            /\ Len(prog[i].fragments) = probs[i + 1]
            /\ \A j \in DOMAIN prog[i].fragments :
                 /\ ~prog[i].fragments[j].locked
                 /\ Len(prog[i].fragments[j].indices) = 1
            /\ {prog[i].fragments[j].indices[1] : j \in DOMAIN prog[i].fragments}
                 = 0..(probs[i + 1] - 1)

\* The read of the record of `file` finds nothing to restore: storage
\* throws, there is no record, or its text does not parse.
NothingStored(file) ==
  \/ ~storageWorks
  \/ storage[sessionKey(createProblemSetHash(file))].kind # "json"

C26_RestartInitializes ==
  [][(handleRestart /\ NumProblems > 0)
     => Initialized(problems, current', queue', progress')]_vars

\* Witness of C26: the state Restart is offered in: the last of three
\* problems is current, nothing is queued and every problem is solved, its
\* tokens one locked fragment.
C26_Witness ==
  /\ NumProblems = 3
  /\ current = 2
  /\ queue = <<>>
  /\ \A i \in ProblemIndices :
       /\ progress[i].solved
       /\ Len(progress[i].fragments) = 1
       /\ progress[i].fragments[1].locked

\* ------------------------------------------- claims about persistence
\* The record of `file` in storage.
RecordOf(file) == storage[sessionKey(createProblemSetHash(file))]

\* `value` is a session of the problem set `probs`: one progress entry per
\* problem, its fragments holding each token position once.
BelongsTo(probs, value) ==
  /\ ~value.isNull
  /\ DOMAIN value.progress = 0..(Len(probs) - 1)
  /\ \A i \in 0..(Len(probs) - 1) :
       EachIndexOnce(value.progress[i].fragments, probs[i + 1])

\* C27: a session stored under the key of one problem-set hash is never
\* restored for a problem set with another hash: after loading a set the
\* session in memory is the record under that set's own key or a fresh
\* Initialize of that set, the records under the other keys are neither
\* read nor written, and so no key ever holds a session of another set.
C27_OwnKeyOnly ==
  /\ [](\A file \in ProblemFiles :
          (RecordOf(file).kind = "json" /\ ~RecordOf(file).value.isNull)
          => BelongsTo(file.tokens, RecordOf(file).value))
  /\ [][\A file \in ProblemFiles :
          fetchSucceeds(file)
          => (/\ \A k \in StorageKeys \ {sessionKey(createProblemSetHash(file))} :
                   storage'[k] = storage[k]
              /\ IF NothingStored(file)
                 THEN hasSession' /\ Initialized(file.tokens, current', queue', progress')
                 ELSE sessionState' = RecordOf(file).value)]_vars
  /\ [][status' = "success"
        => \A k \in StorageKeys \ {sessionKey(problemHash')} :
             storage'[k] = storage[k]]_vars

\* Witness of C27: two problem sets have been loaded in turn; the record of
\* the set <<1, 1>> in its second wording holds a session with a solved
\* problem while the set <<2>> in its first wording is loaded with a
\* session of its own.
C27_Witness ==
  /\ status = "success"
  /\ loads = 2
  /\ problems = <<2>>
  /\ problemHash = createProblemSetHash([tokens |-> <<2>>, wording |-> 1])
  /\ hasSession
  /\ Len(progress[0].fragments) = 2
  /\ LET other == RecordOf([tokens |-> <<1, 1>>, wording |-> 2])
     IN /\ other.kind = "json"
        /\ ~other.value.isNull
        /\ other.value.progress[0].solved

\* C28: a refresh restores the session: once the write effect of the last
\* transition has run, the record under the session key is the serialized
\* session in memory; it is still there when the page is loaded again, and
\* loading the same problem set with working storage puts the recorded
\* session back in memory.
C28_RefreshRestores ==
  /\ []((status = "success" /\ storageWorks /\ ~writePending)
        => storage[sessionKey(problemHash)] = serialize(sessionState))
  /\ [][(reload /\ storageWorks /\ ~writePending)
        => storage'[sessionKey(problemHash)] = serialize(sessionState)]_vars
  /\ [][\A file \in ProblemFiles :
          (fetchSucceeds(file) /\ storageWorks /\ RecordOf(file).kind = "json")
          => sessionState' = RecordOf(file).value]_vars

\* Witness of C28: the second load has just put back a session whose first
\* problem is solved and whose second problem is current, before any write
\* effect of the new page has stored it again.
C28_Witness ==
  /\ status = "success"
  /\ loads = 2
  /\ storageWorks
  /\ writePending
  /\ storage[sessionKey(problemHash)] = serialize(NullSession)
  /\ hasSession
  /\ problems = <<1, 1>>
  /\ current = 1
  /\ queue = <<>>
  /\ progress[0].solved
  /\ ~progress[1].solved

\* C29: whenever a record exists under the session key of the loaded
\* problem set, its value is a serialized session of that problem set: the
\* null the hook holds before the set is loaded is never written under it,
\* nor the state of another key, the commit of the key change included.
C29_RecordIsSession ==
  (status = "success" /\ storage[sessionKey(problemHash)].kind = "json")
  => BelongsTo(problems, storage[sessionKey(problemHash)].value)

C31_WriteFailureHarmless ==
  /\ [][(writeEffect /\ ~storageWorks)
        => (/\ sessionState' = sessionState
            /\ problems' = problems
            /\ thrown' = thrown
            /\ storage' = storage)]_vars
  /\ []((status = "success" /\ ~storageWorks) => Running)

\* Witness of C31: on a page whose storage throws, the first of two
\* problems was solved and Next made the second current; every write
\* effect has run and failed, and nothing is recorded.
C31_Witness ==
  /\ status = "success"
  /\ ~storageWorks
  /\ ~writePending
  /\ loads = 1
  /\ storage[sessionKey(problemHash)] = Absent
  /\ problems = <<1, 1>>
  /\ current = 1
  /\ queue = <<>>
  /\ progress[0].solved

\* ------------------------------ claims about the two evaluation engines
\* No two neighbours of the list are both locked.
NoLockedNeighbours(fragments) ==
  \A j \in 1..(Len(fragments) - 1) : ~(fragments[j].locked /\ fragments[j + 1].locked)

\* C37: in the fragment list evaluate returns no two neighbouring fragments
\* are both locked: locked fragments that would stand next to each other
\* have been merged into one (in either evaluation engine).
C37_LockedNeighboursMerged ==
  /\ evalResult.threw = "none" => NoLockedNeighbours(evalResult.fragments)
  /\ evalOther.threw = "none" => NoLockedNeighbours(evalOther.fragments)

\* Witness of C37: three single tokens in their places came back from both
\* engines as one locked fragment.
C37_Witness ==
  /\ evalLength = 3
  /\ evalInput = <<Fragment(<<0>>, FALSE), Fragment(<<1>>, FALSE), Fragment(<<2>>, FALSE)>>
  /\ evalResult.fragments = <<Fragment(<<0, 1, 2>>, TRUE)>>
  /\ evalOther.fragments = <<Fragment(<<0, 1, 2>>, TRUE)>>

\* Every fragment of the list holds ascending indices.
AllAscending(fragments) ==
  \A i \in DOMAIN fragments : IsAscending(fragments[i].indices)

\* C38: Solve never rearranges the user's ordering: for every valid input
\* whose fragments hold ascending indices, the flattened sequence of
\* original indices of evaluate's result equals the flattened sequence of
\* its input, and the set of indices covered is the same (in either
\* engine).
C38_OrderKept ==
  /\ (evalResult.threw = "none" /\ AllAscending(evalInput))
     => (/\ orderedIndices(evalResult.fragments) = orderedIndices(evalInput)
         /\ Range(orderedIndices(evalResult.fragments)) = Range(orderedIndices(evalInput)))
  /\ (evalOther.threw = "none" /\ AllAscending(evalInput))
     => (/\ orderedIndices(evalOther.fragments) = orderedIndices(evalInput)
         /\ Range(orderedIndices(evalOther.fragments)) = Range(orderedIndices(evalInput)))

\* Witness of C38: the display [2], [0, 1] with the second token in place
\* was evaluated; the per-token engine split the pair and kept the order
\* 2, 0, 1.
C38_Witness ==
  /\ evalLength = 3
  /\ evalInput = <<Fragment(<<2>>, FALSE), Fragment(<<0, 1>>, FALSE)>>
  /\ evalResult.threw = "none"
  /\ orderedIndices(evalResult.fragments) = <<2, 0, 1>>
  /\ evalOther.threw = "none"

\* The locked fragments of a list, in order.
LockedFragments(fragments) ==
  LET IsLocked(f) == f.locked
  IN SelectSeq(fragments, IsLocked)

\* C39: the per-token engine and the per-fragment engine agree on every
\* fragment list whose fragments are contiguous ascending runs partitioning
\* 0..n-1: same lockedCount, same isSolved, same set of locked positions,
\* and fragment lists that differ at most in how the unlocked positions are
\* grouped (same flattened order, same locked fragments).
C39_EnginesAgree ==
  (evalResult.threw # "pending" /\ IsRunPartition(evalInput, evalLength))
  => (/\ evalResult.threw = "none"
      /\ evalOther.threw = "none"
      /\ evalResult.lockedCount = evalOther.lockedCount
      /\ evalResult.isSolved = evalOther.isSolved
      /\ LockedIndices(evalResult.fragments) = LockedIndices(evalOther.fragments)
      /\ orderedIndices(evalResult.fragments) = orderedIndices(evalOther.fragments)
      /\ LockedFragments(evalResult.fragments) = LockedFragments(evalOther.fragments))

\* Witness of C39: on [1], [2], [0] both engines lock nothing; the
\* per-token engine joins the unlocked run 1, 2 and the per-fragment engine
\* leaves the three fragments apart.
C39_Witness ==
  /\ evalLength = 3
  /\ evalInput = <<Fragment(<<1>>, FALSE), Fragment(<<2>>, FALSE), Fragment(<<0>>, FALSE)>>
  /\ evalResult.fragments = <<Fragment(<<1, 2>>, FALSE), Fragment(<<0>>, FALSE)>>
  /\ evalOther.fragments
       = <<Fragment(<<1>>, FALSE), Fragment(<<2>>, FALSE), Fragment(<<0>>, FALSE)>>
  /\ evalResult.lockedCount = 0

Malformed(payload) ==
  \/ ~payload.isArray
  \/ \E k \in DOMAIN payload.entries :
       \/ ~payload.entries[k].isObject
       \/ ~(payload.entries[k].tokensIsArray /\ payload.entries[k].tokensAreStrings)
       \/ ~payload.entries[k].noteIsString

\* C33: loading is all-or-nothing: a payload that is not an array, or that
\* has an entry without an array of strings `tokens` or a string `note`,
\* ends the load in the error state with no session; any other payload
\* gives a problem set with exactly as many problems as the payload has
\* entries, in the same order.
C33_LoadAllOrNothing ==
  /\ [][\A i \in DOMAIN requests, payload \in Payloads :
          fetchResolves(i, payload)
          => IF Malformed(payload)
             THEN /\ status' = "error"
                  /\ problems' = <<>>
                  /\ ~hasSession'
                  /\ progress' = <<>>
             ELSE /\ status' = "success"
                  /\ Len(problems') = Len(payload.entries)
                  /\ \A k \in DOMAIN payload.entries :
                       problems'[k] = payload.entries[k].tokens]_vars
  /\ [](status = "error" => (~hasSession /\ current = Null /\ progress = <<>>))

\* Witness of C33: a payload of a two-token entry followed by a one-token
\* entry was loaded as two problems in that order, with a session.
C33_Witness ==
  /\ status = "success"
  /\ requests[1] = Request(FALSE, TRUE)
  /\ problems = <<2, 1>>
  /\ hasSession
  /\ current = 0
  /\ queue = <<1>>

\* ------------------------------------------- claims about the controls
AllSolved == \A i \in ProblemIndices : progress[i].solved

\* C34: under the actions the page offers, Restart is offered only in
\* states where every problem of the set is solved, and Next is offered in
\* every state where the current problem is solved and some problem is
\* still unsolved.
C34_ControlsMatchProgress ==
  /\ showRestart => AllSolved
  /\ (hasCurrentProgress /\ progress[current].solved /\ ~AllSolved) => showNext

\* Witness of C34: Restart is offered on the first of two problems, which
\* was skipped, came back after the second was solved, and is now solved
\* too.
C34_Witness ==
  /\ NumProblems = 2
  /\ current = 0
  /\ queue = <<>>
  /\ showRestart
  /\ progress[0].solved
  /\ progress[1].solved

\* C35: under the actions the page offers, every index in queue refers to
\* a problem whose solved flag is false, in every reachable state.
C35_QueueUnsolved ==
  \A k \in DOMAIN queue : ~progress[queue[k]].solved

\* Witness of C35: the first of three problems is solved and left behind,
\* the second was skipped and waits in the queue behind nothing else, the
\* third is current.
C35_Witness ==
  /\ NumProblems = 3
  /\ progress[0].solved
  /\ current = 2
  /\ queue = <<1>>
  /\ ~progress[1].solved
  /\ ~progress[2].solved

\* C40: no dead end: in every state reachable under the actions the page
\* offers, an unsolved current problem whose list is not yet in order has
\* an unlocked fragment whose drag brings it closer, and a list in order is
\* solved by Solve; so a user who from some moment on keeps dragging
\* towards the solution, pressing Solve and then Next, reaches a state with
\* every problem solved.
C40_NoDeadEnd ==
  /\ []((canSolve /\ ~InOrder) => GoodDrags # {})
  /\ [][(solveInOrder) => progress'[current].solved]_vars
  /\ diligent ~> AllSolved

\* Witness of C40: the user has settled while an unlocked fragment stood to
\* the left of a locked one it had been dragged across; another problem
\* waits in the queue.
C40_Witness ==
  /\ diligent
  /\ NumProblems = 2
  /\ Len(queue) = 1
  /\ canSolve
  /\ ~InOrder
  /\ progress[current].fragments
       = <<Fragment(<<2>>, FALSE), Fragment(<<0>>, TRUE), Fragment(<<1>>, FALSE)>>

\* ---------------------------------------- claims about the service worker
\* C36: the service worker answers a request for problems.json from the
\* network whenever the network fetch succeeds and serves the cached copy
\* only when the fetch fails; the copy it serves from cache is always the
\* body of an earlier successful retrieval of problems.json (a response
\* with an ok status, as fetchProblems requires of a retrieval).
C36_NetworkFirst ==
  /\ [][\A response \in ServerResponses :
          networkFirstOnline(response) => swResponse' = response]_vars
  /\ [][(swResponse' # swResponse /\ swResponse'.from = "cache")
        => (networkFirstOffline /\ swResponse' = swCache)]_vars
  /\ [](swResponse.from = "cache" => swResponse.ok)

====
